---------------------------- MODULE Spec2Model ----------------------------
(***************************************************************************)
(* The product catalog of budget-pc-parts: the relational store            *)
(* (categories, brands, products, product_images), the sample-data seeder  *)
(* with its staged commits, and the read-only catalog services.            *)
(*                                                                         *)
(* Money is kept in cents (Decimal with two places), text that is searched *)
(* is a sequence of one-character strings, timestamps are clock ticks.     *)
(***************************************************************************)
EXTENDS Integers, Sequences, FiniteSets, TLC

VARIABLES
    categories,   \* table "categories": a set of rows
    brands,       \* table "brands"
    products,     \* table "products"
    images,       \* table "product_images"
    nextId,       \* the next generated primary key of each table
    seed,         \* per seed_sample_data invocation: position and created ids
    ret,          \* the service call that has returned and its value
    page1         \* a page of products a caller has kept (test_pagination)

vars == <<categories, brands, products, images, nextId, seed, ret, page1>>

store == <<categories, brands, products, images>>

-----------------------------------------------------------------------------
(* Bounds of the model *)

MaxInitCatalog == 2      \* rows of CategoryPool and of BrandPool at the start
MaxInitProducts == 3     \* rows of ProductPool at the start
MaxSeeders == 2          \* seed_sample_data invocations
MaxLimit == 2            \* limits 1, MaxLimit and the default
MaxOffset == 1           \* offsets 0..MaxOffset
MaxTiePosition == 1      \* seeded rows at this position and the next may share a tick
MaxFilterFields == 2     \* filter fields set in one ProductFilter
MaxCrowd == 5            \* products of one category in a crowded store

-----------------------------------------------------------------------------
(* Values *)

Null == -1               \* None of an Optional[int] / Optional[Decimal]
NullStr == "None"        \* None of an Optional[str]
NullText == <<"None">>   \* None of an optional searched text

ACTIVE == "active"
OUT_OF_STOCK == "out_of_stock"
DISCONTINUED == "discontinued"
ProductStatus == {ACTIVE, OUT_OF_STOCK, DISCONTINUED}

DefaultLimit == 20
FeaturedMaxPrice == 20000
FallbackMin == 0
FallbackMax == 100000

Range(s) == {s[i] : i \in DOMAIN s}
Min(a, b) == IF a <= b THEN a ELSE b
Max(a, b) == IF a >= b THEN a ELSE b
SetMin(S) == CHOOSE x \in S : \A y \in S : x <= y
SetMax(S) == CHOOSE x \in S : \A y \in S : x >= y

-----------------------------------------------------------------------------
(* The seeder's fixed sample data *)

cat_data_list ==
  << [name |-> "Graphics Cards", slug |-> "graphics-cards",
      description |-> "GPU cards for gaming performance"],
     [name |-> "Processors", slug |-> "processors",
      description |-> "CPUs for gaming builds"],
     [name |-> "Memory", slug |-> "memory",
      description |-> "RAM modules for gaming systems"],
     [name |-> "Storage", slug |-> "storage",
      description |-> "SSDs and HDDs for games"],
     [name |-> "Motherboards", slug |-> "motherboards",
      description |-> "Motherboards for gaming builds"],
     [name |-> "Power Supplies", slug |-> "power-supplies",
      description |-> "PSUs for gaming systems"],
     [name |-> "Cases", slug |-> "cases",
      description |-> "PC cases for gaming builds"],
     [name |-> "Peripherals", slug |-> "peripherals",
      description |-> "Gaming keyboards, mice, and headsets"] >>

brand_data_list ==
  << [name |-> "NVIDIA", description |-> "Leading GPU manufacturer"],
     [name |-> "AMD", description |-> "CPU and GPU manufacturer"],
     [name |-> "Intel", description |-> "Leading CPU manufacturer"],
     [name |-> "Corsair", description |-> "Gaming hardware manufacturer"],
     [name |-> "ASUS", description |-> "Computer hardware manufacturer"],
     [name |-> "MSI", description |-> "Gaming hardware specialist"],
     [name |-> "Kingston", description |-> "Memory and storage solutions"],
     [name |-> "Seagate", description |-> "Storage solutions"] >>

products_data ==
  << [name |-> <<"R","T","X"," ","4","0","6","0"," ","G","a","m","i","n","g",
                 " ","G","r","a","p","h","i","c","s"," ","C","a","r","d">>,
      description |->
        <<"A","f","f","o","r","d","a","b","l","e"," ","g","a","m","i","n","g",
          " ","G","P","U"," ","w","i","t","h"," ","e","x","c","e","l","l","e",
          "n","t"," ","1","0","8","0","p"," ","p","e","r","f","o","r","m","a",
          "n","c","e","."," ","F","e","a","t","u","r","e","s"," ","8","G","B",
          " ","G","D","D","R","6"," ","m","e","m","o","r","y"," ","a","n","d",
          " ","r","a","y"," ","t","r","a","c","i","n","g"," ","s","u","p","p",
          "o","r","t",".">>,
      sku |-> "RTX4060-8G", price |-> 29999, original_price |-> 34999,
      category |-> 1, brand |-> 1, stock_quantity |-> 15,
      slug |-> "rtx-4060-gaming-graphics-card"],
     [name |-> <<"R","y","z","e","n"," ","5"," ","5","6","0","0","X"," ","P",
                 "r","o","c","e","s","s","o","r">>,
      description |->
        <<"6","-","c","o","r","e",","," ","1","2","-","t","h","r","e","a","d",
          " ","p","r","o","c","e","s","s","o","r"," ","p","e","r","f","e","c",
          "t"," ","f","o","r"," ","g","a","m","i","n","g","."," ","E","x","c",
          "e","l","l","e","n","t"," ","p","r","i","c","e","-","t","o","-","p",
          "e","r","f","o","r","m","a","n","c","e"," ","r","a","t","i","o",".">>,
      sku |-> "R5-5600X", price |-> 19999, original_price |-> 22999,
      category |-> 2, brand |-> 2, stock_quantity |-> 25,
      slug |-> "ryzen-5-5600x-processor"],
     [name |-> <<"1","6","G","B"," ","D","D","R","4","-","3","2","0","0"," ",
                 "G","a","m","i","n","g"," ","M","e","m","o","r","y"," ","K",
                 "i","t">>,
      description |->
        <<"H","i","g","h","-","p","e","r","f","o","r","m","a","n","c","e"," ",
          "1","6","G","B"," ","(","2","x","8","G","B",")"," ","D","D","R","4",
          " ","m","e","m","o","r","y"," ","k","i","t"," ","o","p","t","i","m",
          "i","z","e","d"," ","f","o","r"," ","g","a","m","i","n","g",".">>,
      sku |-> "DDR4-3200-16G", price |-> 7999, original_price |-> 9999,
      category |-> 3, brand |-> 4, stock_quantity |-> 40,
      slug |-> "16gb-ddr4-3200-gaming-memory"],
     [name |-> <<"1","T","B"," ","N","V","M","e"," ","S","S","D"," ","G","a",
                 "m","i","n","g"," ","D","r","i","v","e">>,
      description |->
        <<"F","a","s","t"," ","1","T","B"," ","N","V","M","e"," ","S","S","D",
          " ","p","e","r","f","e","c","t"," ","f","o","r"," ","s","t","o","r",
          "i","n","g"," ","g","a","m","e","s"," ","a","n","d"," ","r","e","d",
          "u","c","i","n","g"," ","l","o","a","d"," ","t","i","m","e","s",".">>,
      sku |-> "NVME-1TB-GAME", price |-> 8999, original_price |-> 11999,
      category |-> 4, brand |-> 7, stock_quantity |-> 30,
      slug |-> "1tb-nvme-ssd-gaming-drive"],
     [name |-> <<"B","5","5","0"," ","G","a","m","i","n","g"," ","M","o","t",
                 "h","e","r","b","o","a","r","d">>,
      description |->
        <<"A","M","D"," ","B","5","5","0"," ","c","h","i","p","s","e","t"," ",
          "m","o","t","h","e","r","b","o","a","r","d"," ","w","i","t","h"," ",
          "P","C","I","e"," ","4",".","0"," ","s","u","p","p","o","r","t"," ",
          "a","n","d"," ","g","a","m","i","n","g"," ","f","e","a","t","u","r",
          "e","s",".">>,
      sku |-> "B550-GAMING", price |-> 12999, original_price |-> 15999,
      category |-> 5, brand |-> 5, stock_quantity |-> 20,
      slug |-> "b550-gaming-motherboard"],
     [name |-> <<"6","5","0","W"," ","8","0","+"," ","G","o","l","d"," ","G",
                 "a","m","i","n","g"," ","P","S","U">>,
      description |->
        <<"F","u","l","l","y"," ","m","o","d","u","l","a","r"," ","6","5","0",
          "W"," ","p","o","w","e","r"," ","s","u","p","p","l","y"," ","w","i",
          "t","h"," ","8","0","+"," ","G","o","l","d"," ","e","f","f","i","c",
          "i","e","n","c","y"," ","r","a","t","i","n","g",".">>,
      sku |-> "PSU-650W-GOLD", price |-> 9999, original_price |-> 12999,
      category |-> 6, brand |-> 4, stock_quantity |-> 18,
      slug |-> "650w-80plus-gold-gaming-psu"],
     [name |-> <<"M","i","d","-","T","o","w","e","r"," ","G","a","m","i","n",
                 "g"," ","C","a","s","e">>,
      description |->
        <<"S","t","y","l","i","s","h"," ","m","i","d","-","t","o","w","e","r",
          " ","c","a","s","e"," ","w","i","t","h"," ","t","e","m","p","e","r",
          "e","d"," ","g","l","a","s","s"," ","p","a","n","e","l"," ","a","n",
          "d"," ","R","G","B"," ","l","i","g","h","t","i","n","g",".">>,
      sku |-> "CASE-MIDTOWER", price |-> 7999, original_price |-> Null,
      category |-> 7, brand |-> 6, stock_quantity |-> 12,
      slug |-> "mid-tower-gaming-case"],
     [name |-> <<"M","e","c","h","a","n","i","c","a","l"," ","G","a","m","i",
                 "n","g"," ","K","e","y","b","o","a","r","d">>,
      description |->
        <<"R","G","B"," ","m","e","c","h","a","n","i","c","a","l"," ","g","a",
          "m","i","n","g"," ","k","e","y","b","o","a","r","d"," ","w","i","t",
          "h"," ","C","h","e","r","r","y"," ","M","X"," ","s","w","i","t","c",
          "h","e","s",".">>,
      sku |-> "KB-MECH-RGB", price |-> 8999, original_price |-> 10999,
      category |-> 8, brand |-> 4, stock_quantity |-> 35,
      slug |-> "mechanical-gaming-keyboard"] >>

sample_images ==
  << [product |-> 1, is_primary |-> TRUE,
      image_url |-> "https://images.unsplash.com/photo-1591488320449-011701bb6704?w=400",
      alt_text |-> "RTX 4060 Graphics Card"],
     [product |-> 2, is_primary |-> TRUE,
      image_url |-> "https://images.unsplash.com/photo-1555617981-dac3880eac6e?w=400",
      alt_text |-> "AMD Ryzen Processor"],
     [product |-> 3, is_primary |-> TRUE,
      image_url |-> "https://images.unsplash.com/photo-1562976540-1502c2145186?w=400",
      alt_text |-> "DDR4 Memory Modules"],
     [product |-> 4, is_primary |-> TRUE,
      image_url |-> "https://images.unsplash.com/photo-1597872200969-2b65d56bd16b?w=400",
      alt_text |-> "NVMe SSD Drive"],
     [product |-> 5, is_primary |-> TRUE,
      image_url |-> "https://images.unsplash.com/photo-1518717758536-85ae29035b6d?w=400",
      alt_text |-> "Gaming Motherboard"],
     [product |-> 6, is_primary |-> TRUE,
      image_url |-> "https://images.unsplash.com/photo-1609694740799-82d2c0b2fcd8?w=400",
      alt_text |-> "Power Supply Unit"],
     [product |-> 7, is_primary |-> TRUE,
      image_url |-> "https://images.unsplash.com/photo-1587202372634-32705e3bf49c?w=400",
      alt_text |-> "Gaming PC Case"],
     [product |-> 8, is_primary |-> TRUE,
      image_url |-> "https://images.unsplash.com/photo-1541140532154-b024d705b90a?w=400",
      alt_text |-> "Mechanical Gaming Keyboard"] >>

-----------------------------------------------------------------------------
(* Rows a store may hold before the program starts.  Every prefix choice    *)
(* satisfies the schema: unique name/slug/sku, price > 0, stock >= 0, and   *)
(* foreign keys that reference existing rows.                               *)

CategoryPool ==
  << [id |-> 1, name |-> "Monitors", slug |-> "monitors", description |-> "",
      parent_id |-> Null, is_active |-> TRUE],
     [id |-> 2, name |-> "Cables", slug |-> "cables", description |-> "",
      parent_id |-> 1, is_active |-> FALSE],
     [id |-> 3, name |-> "Memory", slug |-> "ram", description |-> "",
      parent_id |-> Null, is_active |-> TRUE] >>

BrandPool ==
  << [id |-> 1, name |-> "Logitech", description |-> "", is_active |-> TRUE],
     [id |-> 2, name |-> "AMD", description |-> "", is_active |-> FALSE],
     [id |-> 3, name |-> "Noctua", description |-> "", is_active |-> TRUE] >>

ProductPool ==
  << [id |-> 1, name |-> <<"c","_","d">>, description |-> <<"A","b">>,
      sku |-> "S1", price |-> 20000, original_price |-> 25000,
      status |-> DISCONTINUED, category_id |-> 1, brand_id |-> Null,
      stock_quantity |-> 0, slug |-> "p1", created_at |-> 1],
     [id |-> 2, name |-> <<"A","b">>, description |-> <<>>,
      sku |-> "S2", price |-> 5000, original_price |-> Null,
      status |-> ACTIVE, category_id |-> 1, brand_id |-> 1,
      stock_quantity |-> 3, slug |-> "p2", created_at |-> 1],
     [id |-> 3, name |-> <<"5","0","%">>, description |-> <<"a","B","c">>,
      sku |-> "S3", price |-> 29999, original_price |-> 19999,
      status |-> ACTIVE, category_id |-> 2, brand_id |-> 2,
      stock_quantity |-> 1, slug |-> "p3", created_at |-> 2],
     [id |-> 4, name |-> <<"b","\\","c">>, description |-> <<"d">>,
      sku |-> "S4", price |-> 20001, original_price |-> Null,
      status |-> OUT_OF_STOCK, category_id |-> Null, brand_id |-> 1,
      stock_quantity |-> 2, slug |-> "p4", created_at |-> 2] >>

ImagePool ==
  << [id |-> 1, product_id |-> 1, image_url |-> "u1", alt_text |-> "",
      is_primary |-> TRUE, display_order |-> 0],
     [id |-> 2, product_id |-> 3, image_url |-> "u2", alt_text |-> "",
      is_primary |-> FALSE, display_order |-> 1],
     [id |-> 3, product_id |-> 3, image_url |-> "u3", alt_text |-> "",
      is_primary |-> FALSE, display_order |-> 0],
     [id |-> 4, product_id |-> 4, image_url |-> "u4", alt_text |-> "",
      is_primary |-> TRUE, display_order |-> 0],
     [id |-> 5, product_id |-> 4, image_url |-> "u5", alt_text |-> "",
      is_primary |-> TRUE, display_order |-> 0] >>

\* the same rows with other flags and stock: a subcategory that is active;
\* a discontinued product still in stock and an active one sold out, whose
\* original price equals its price
CategoryPools ==
    {CategoryPool, [CategoryPool EXCEPT ![2].is_active = TRUE]}

ProductPools ==
    {ProductPool, [ProductPool EXCEPT ![1].stock_quantity = 5,
                                      ![2].stock_quantity = 0,
                                      ![2].original_price = 5000]}

Prefix(pool, n) == {pool[i] : i \in 1..Min(n, Len(pool))}

\* a pool product with the foreign keys the chosen categories/brands allow
FitProduct(p, cats, brs) ==
    [p EXCEPT !.category_id = IF \E c \in cats : c.id = @ THEN @ ELSE Null,
              !.brand_id = IF \E b \in brs : b.id = @ THEN @ ELSE Null]

FitCategory(c, cats) ==
    [c EXCEPT !.parent_id = IF \E d \in cats : d.id = @ THEN @ ELSE Null]

\* pc: the invocation's position; categories, brands, products: the ids of
\* the rows it has committed; empty, count: whether it found all four tables
\* empty, and the number of product rows when it returned
IdleSeed == [pc |-> "idle", categories |-> <<>>, brands |-> <<>>,
             products |-> <<>>, empty |-> FALSE, count |-> Null]

NoCall == [op |-> "none"]

Seeders == 1..MaxSeeders

Init ==
    \E kc \in 0..MaxInitCatalog, kp \in 0..MaxInitProducts,
       cpool \in CategoryPools, ppool \in ProductPools :
        /\ categories = {FitCategory(c, Prefix(cpool, kc)) :
                            c \in Prefix(cpool, kc)}
        /\ brands = Prefix(BrandPool, kc)
        /\ products = {FitProduct(p, Prefix(cpool, kc), Prefix(BrandPool, kc)) :
                            p \in Prefix(ppool, kp)}
        /\ images = {i \in Range(ImagePool) :
                            \E p \in Prefix(ppool, kp) : p.id = i.product_id}
        /\ nextId = [categories |-> Len(CategoryPool) + 1,
                     brands |-> Len(BrandPool) + 1,
                     products |-> Len(ProductPool) + 1,
                     images |-> Len(ImagePool) + 1]
        /\ seed = [s \in Seeders |-> IdleSeed]
        /\ ret = NoCall
        /\ page1 = NoCall

-----------------------------------------------------------------------------
(* DataSeederService.seed_sample_data, one action per query / commit *)

\* ids generated for n rows inserted in one flush, in insertion order
NewIds(table, n) == [i \in 1..n |-> nextId[table] + i - 1]

InFlight(s) == seed[s].pc \in {"categories", "brands", "products", "images"}
Finished(s) == seed[s].pc \in {"done", "failed", "stopped"}

\* mutants of AlreadySeeded: the check is skipped; the wrong table is asked
NeverSeeded == FALSE
CategoriesExist == categories # {}

\* existing_products = session.exec(select(Product)).first()
AlreadySeeded == products # {}

SeedCheck(s) ==
    /\ seed[s].pc = "idle"
    /\ seed' = [seed EXCEPT ![s].pc = IF AlreadySeeded THEN "done" ELSE "categories",
                            ![s].empty = store = <<{}, {}, {}, {}>>,
                            ![s].count = IF AlreadySeeded
                                         THEN Cardinality(products) ELSE Null]
    /\ UNCHANGED <<categories, brands, products, images, nextId, ret, page1>>

\* mutant of CategoryConflict: name and slug carry no unique constraint
NoCategoryConflict(rows) == FALSE

\* unique constraints of the three tables the seeder inserts into
CategoryConflict(rows) ==
    \E r \in rows, c \in categories : r.name = c.name \/ r.slug = c.slug
BrandConflict(rows) ==
    \E r \in rows, b \in brands : r.name = b.name
ProductConflict(rows) ==
    \E r \in rows, p \in products : r.sku = p.sku \/ r.slug = p.slug

NewCategories ==
    {[id |-> NewIds("categories", Len(cat_data_list))[i],
      name |-> cat_data_list[i].name, slug |-> cat_data_list[i].slug,
      description |-> cat_data_list[i].description,
      parent_id |-> Null, is_active |-> TRUE] : i \in 1..Len(cat_data_list)}

\* mutant of SeedCategories: the rows are added but the commit is missing
SeedCategoriesUncommitted(s) ==
    /\ seed[s].pc = "categories"
    /\ nextId' = [nextId EXCEPT !.categories = @ + Len(cat_data_list)]
    /\ seed' = [seed EXCEPT ![s].pc = "brands",
                  ![s].categories = NewIds("categories", Len(cat_data_list))]
    /\ UNCHANGED <<categories, brands, products, images, ret, page1>>

SeedCategories(s) ==
    /\ seed[s].pc = "categories"
    /\ IF CategoryConflict(NewCategories)
       THEN /\ seed' = [seed EXCEPT ![s].pc = "failed"]
            /\ UNCHANGED <<categories, nextId>>
       ELSE /\ categories' = categories \cup NewCategories
            /\ nextId' = [nextId EXCEPT !.categories = @ + Len(cat_data_list)]
            /\ seed' = [seed EXCEPT ![s].pc = "brands",
                          ![s].categories = NewIds("categories", Len(cat_data_list))]
    /\ UNCHANGED <<brands, products, images, ret, page1>>

NewBrands ==
    {[id |-> NewIds("brands", Len(brand_data_list))[i],
      name |-> brand_data_list[i].name,
      description |-> brand_data_list[i].description,
      is_active |-> TRUE] : i \in 1..Len(brand_data_list)}

SeedBrands(s) ==
    /\ seed[s].pc = "brands"
    /\ IF BrandConflict(NewBrands)
       THEN /\ seed' = [seed EXCEPT ![s].pc = "failed"]
            /\ UNCHANGED <<brands, nextId>>
       ELSE /\ brands' = brands \cup NewBrands
            /\ nextId' = [nextId EXCEPT !.brands = @ + Len(brand_data_list)]
            /\ seed' = [seed EXCEPT ![s].pc = "products",
                          ![s].brands = NewIds("brands", Len(brand_data_list))]
    /\ UNCHANGED <<categories, products, images, ret, page1>>

\* created_at is datetime.utcnow() at construction: later rows are never
\* older, and two rows constructed back to back may share a tick
SeedClock(i, tie) ==
    Len(ProductPool) + i - (IF tie # 0 /\ i > tie THEN 1 ELSE 0)

\* mutant of NewProducts: the brand is taken at the product's own position
NewProductsByPosition(s, tie) ==
    {[id |-> NewIds("products", Len(products_data))[i],
      name |-> products_data[i].name,
      description |-> products_data[i].description,
      sku |-> products_data[i].sku,
      price |-> products_data[i].price,
      original_price |-> products_data[i].original_price,
      status |-> ACTIVE,
      category_id |-> seed[s].categories[i],
      brand_id |-> seed[s].brands[i],
      stock_quantity |-> products_data[i].stock_quantity,
      slug |-> products_data[i].slug,
      created_at |-> SeedClock(i, tie)] : i \in 1..Len(products_data)}

NewProducts(s, tie) ==
    {[id |-> NewIds("products", Len(products_data))[i],
      name |-> products_data[i].name,
      description |-> products_data[i].description,
      sku |-> products_data[i].sku,
      price |-> products_data[i].price,
      original_price |-> products_data[i].original_price,
      status |-> ACTIVE,
      category_id |-> seed[s].categories[products_data[i].category],
      brand_id |-> seed[s].brands[products_data[i].brand],
      stock_quantity |-> products_data[i].stock_quantity,
      slug |-> products_data[i].slug,
      created_at |-> SeedClock(i, tie)] : i \in 1..Len(products_data)}

SeedProducts(s) ==
    /\ seed[s].pc = "products"
    /\ \E tie \in 0..Min(MaxTiePosition, Len(products_data) - 1) :
        IF ProductConflict(NewProducts(s, tie))
        THEN /\ seed' = [seed EXCEPT ![s].pc = "failed"]
             /\ UNCHANGED <<products, nextId>>
        ELSE /\ products' = products \cup NewProducts(s, tie)
             /\ nextId' = [nextId EXCEPT !.products = @ + Len(products_data)]
             /\ seed' = [seed EXCEPT ![s].pc = "images",
                           ![s].products = NewIds("products", Len(products_data))]
    /\ UNCHANGED <<categories, brands, images, ret, page1>>

\* mutants of NewImages: an image references the id after its product's;
\* the second entry was copied from the first and still names products[0]
NewImagesOffByOne(s) ==
    {[id |-> NewIds("images", Len(sample_images))[i],
      product_id |-> seed[s].products[sample_images[i].product] + 1,
      image_url |-> sample_images[i].image_url,
      alt_text |-> sample_images[i].alt_text,
      is_primary |-> sample_images[i].is_primary,
      display_order |-> 0] : i \in 1..Len(sample_images)}

NewImagesCopied(s) ==
    {[id |-> NewIds("images", Len(sample_images))[i],
      product_id |-> seed[s].products[IF i = 2 THEN 1
                                      ELSE sample_images[i].product],
      image_url |-> sample_images[i].image_url,
      alt_text |-> sample_images[i].alt_text,
      is_primary |-> sample_images[i].is_primary,
      display_order |-> 0] : i \in 1..Len(sample_images)}

\* mutant of NewImages: every image is attached to the first product
NewImagesOfFirst(s) ==
    {[id |-> NewIds("images", Len(sample_images))[i],
      product_id |-> seed[s].products[1],
      image_url |-> sample_images[i].image_url,
      alt_text |-> sample_images[i].alt_text,
      is_primary |-> sample_images[i].is_primary,
      display_order |-> 0] : i \in 1..Len(sample_images)}

NewImages(s) ==
    {[id |-> NewIds("images", Len(sample_images))[i],
      product_id |-> seed[s].products[sample_images[i].product],
      image_url |-> sample_images[i].image_url,
      alt_text |-> sample_images[i].alt_text,
      is_primary |-> sample_images[i].is_primary,
      display_order |-> 0] : i \in 1..Len(sample_images)}

SeedImages(s) ==
    /\ seed[s].pc = "images"
    /\ images' = images \cup NewImages(s)
    /\ nextId' = [nextId EXCEPT !.images = @ + Len(sample_images)]
    /\ seed' = [seed EXCEPT ![s].pc = "done",
                            ![s].count = Cardinality(products)]
    /\ UNCHANGED <<categories, brands, products, ret, page1>>

\* the process that runs the invocation ends between two of its steps
\* (the server is stopped, the connection is lost): what it committed stays
SeedStop(s) ==
    /\ InFlight(s)
    /\ seed' = [seed EXCEPT ![s].pc = "stopped"]
    /\ UNCHANGED <<categories, brands, products, images, nextId, ret, page1>>

-----------------------------------------------------------------------------
(* ProductFilter and the predicates of ProductService.get_products *)

NoFilters == [absent |-> TRUE]     \* filters = None

SearchQueries == {NullText, <<>>, <<"b">>, <<"_">>, <<"%">>}

AllFilters ==
    [category_id : {Null, 1, 5}, brand_id : {Null, 1},
     min_price : {Null, 5000, 20001}, max_price : {Null, 20000},
     status : {NullStr, ACTIVE},
     in_stock_only : BOOLEAN, search_query : SearchQueries]

FieldsSet(f) ==
    Cardinality({k \in {"category_id", "brand_id", "min_price", "max_price"} :
                    f[k] # Null})
    + (IF f.status # NullStr THEN 1 ELSE 0)
    + (IF f.in_stock_only THEN 1 ELSE 0)
    + (IF f.search_query # NullText THEN 1 ELSE 0)

Filters == {f \in AllFilters : FieldsSet(f) <= MaxFilterFields} \cup {NoFilters}
Limits == {1, MaxLimit, DefaultLimit}
Offsets == 0..MaxOffset

UpperCase == <<"A","B","C","D","E","F","G","H","I","J","K","L","M",
               "N","O","P","Q","R","S","T","U","V","W","X","Y","Z">>
LowerCase == <<"a","b","c","d","e","f","g","h","i","j","k","l","m",
               "n","o","p","q","r","s","t","u","v","w","x","y","z">>

LowerOf == [c \in Range(UpperCase) |->
                LowerCase[CHOOSE i \in DOMAIN UpperCase : UpperCase[i] = c]]

Lower(c) == IF c \in DOMAIN LowerOf THEN LowerOf[c] ELSE c

\* s[i..] ILIKE p[j..]: % matches any run, _ any one character, \ escapes
RECURSIVE Like(_, _, _, _)
Like(s, i, p, j) ==
    IF j > Len(p) THEN i > Len(s)
    ELSE IF p[j] = "%"
         THEN j = Len(p) \/ \E k \in i..(Len(s) + 1) : Like(s, k, p, j + 1)
    ELSE IF p[j] = "_"
         THEN i <= Len(s) /\ Like(s, i + 1, p, j + 1)
    ELSE IF p[j] = "\\" /\ j < Len(p)
         THEN /\ i <= Len(s)
              /\ Lower(s[i]) = Lower(p[j + 1])
              /\ Like(s, i + 1, p, j + 2)
    ELSE /\ i <= Len(s)
         /\ Lower(s[i]) = Lower(p[j])
         /\ Like(s, i + 1, p, j + 1)

\* search_pattern = f"%{filters.search_query}%"
SearchPattern(q) == <<"%">> \o q \o <<"%">>

SearchMatches(p, q) ==
    \/ Like(p.name, 1, SearchPattern(q), 1)
    \/ Like(p.description, 1, SearchPattern(q), 1)

\* mutants: the category predicate is dropped; the max_price predicate is
\* dropped; the max_price comparison is turned around
CategoryIgnored(p, f) == TRUE
MaxPriceIgnored(p, f) == TRUE
MaxPriceInverted(p, f) == f.max_price # Null => p.price >= f.max_price

CategoryMatches(p, f) == f.category_id # Null => p.category_id = f.category_id
BrandMatches(p, f) == f.brand_id # Null => p.brand_id = f.brand_id
\* mutant of MinPriceMatches: the lower bound is not applied
MinPriceIgnored(p, f) == TRUE

MinPriceMatches(p, f) == f.min_price # Null => p.price >= f.min_price
MaxPriceMatches(p, f) == f.max_price # Null => p.price <= f.max_price
StatusMatches(p, f) == f.status # NullStr => p.status = f.status
StockMatches(p, f) == f.in_stock_only => p.stock_quantity > 0
QueryMatches(p, f) ==
    f.search_query \notin {NullText, <<>>} => SearchMatches(p, f.search_query)

Matches(p, f) ==
    \/ f = NoFilters
    \/ /\ f # NoFilters
       /\ CategoryMatches(p, f)
       /\ BrandMatches(p, f)
       /\ MinPriceMatches(p, f)
       /\ MaxPriceMatches(p, f)
       /\ StatusMatches(p, f)
       /\ StockMatches(p, f)
       /\ QueryMatches(p, f)

Matching(f) == {p \in products : Matches(p, f)}

-----------------------------------------------------------------------------
(* ORDER BY ... OFFSET ... LIMIT: the key orders the rows, rows with equal  *)
(* keys come in any order the store picks                                   *)

Before(M, key, p) == Cardinality({q \in M : key[q] < key[p]})
Tied(M, key, p) == Cardinality({q \in M : key[q] = key[p]})

\* the rows that can stand at position k (from 1) of the ordered result
RowsAt(M, key, k) ==
    {p \in M : Before(M, key, p) < k /\ k <= Before(M, key, p) + Tied(M, key, p)}

RECURSIVE Window(_, _, _, _)
Window(M, key, offset, n) ==
    IF n <= 0 THEN {<<>>}
    ELSE UNION {{Append(r, p) : p \in RowsAt(M, key, offset + n) \ Range(r)} :
                    r \in Window(M, key, offset, n - 1)}

\* mutant of Page: the offset is dropped
PageFromStart(M, key, offset, limit) ==
    Window(M, key, 0, Min(limit, Cardinality(M)))

Page(M, key, offset, limit) ==
    Window(M, key, offset, Min(limit, Cardinality(M) - offset))

\* mutant of CreatedAtDesc: oldest first
CreatedAtAsc(M) == [p \in M |-> p.created_at]

CreatedAtDesc(M) == [p \in M |-> 0 - p.created_at]
DisplayOrder(M) == [i \in M |-> i.display_order]

-----------------------------------------------------------------------------
(* ProductService *)

\* datetime.isoformat(): fixed-width fields, most significant first
IsoFormat(t) == <<t \div 10, t % 10>>

\* mutant of PrimaryImages: the product is not compared
PrimaryImagesOfAny(p) == {i \in images : i.is_primary}

PrimaryImages(p) == {i \in images : i.product_id = p.id /\ i.is_primary}

\* .where(is_primary).limit(1).first(): any primary image, or None
PrimaryImageUrls(p) ==
    IF PrimaryImages(p) = {} THEN {NullStr}
    ELSE {i.image_url : i \in PrimaryImages(p)}

\* product.category.name if product.category else None
CategoryName(p) ==
    IF \E c \in categories : c.id = p.category_id
    THEN (CHOOSE c \in categories : c.id = p.category_id).name
    ELSE NullStr

BrandName(p) ==
    IF \E b \in brands : b.id = p.brand_id
    THEN (CHOOSE b \in brands : b.id = p.brand_id).name
    ELSE NullStr

\* mutant of ProductSummary: the id falls back to 0
ProductSummaryNoId(p, url) ==
    [id |-> 0, name |-> p.name, price |-> p.price,
     original_price |-> p.original_price, status |-> p.status,
     primary_image_url |-> url, category_name |-> CategoryName(p),
     brand_name |-> BrandName(p), stock_quantity |-> p.stock_quantity,
     created_at |-> IsoFormat(p.created_at)]

ProductSummary(p, url) ==
    [id |-> p.id, name |-> p.name, price |-> p.price,
     original_price |-> p.original_price, status |-> p.status,
     primary_image_url |-> url, category_name |-> CategoryName(p),
     brand_name |-> BrandName(p), stock_quantity |-> p.stock_quantity,
     created_at |-> IsoFormat(p.created_at)]

RECURSIVE Summaries(_)
Summaries(rows) ==
    IF rows = <<>> THEN {<<>>}
    ELSE {Append(front, ProductSummary(rows[Len(rows)], url)) :
            front \in Summaries(SubSeq(rows, 1, Len(rows) - 1)),
            url \in PrimaryImageUrls(rows[Len(rows)])}

\* every list get_products(filters, limit, offset) can return
ProductLists(f, limit, offset) ==
    UNION {Summaries(rows) :
            rows \in Page(Matching(f), CreatedAtDesc(Matching(f)), offset, limit)}

GetProducts(f, limit, offset) ==
    /\ ret = NoCall
    /\ \E v \in ProductLists(f, limit, offset) :
        ret' = [op |-> "get_products", filters |-> f, limit |-> limit,
                offset |-> offset, value |-> v]
    /\ UNCHANGED <<categories, brands, products, images, nextId, seed, page1>>

NoRow == [none |-> TRUE]     \* a lookup's None

\* mutant of RowById: the key is not compared
RowByIdAny(table, id) == IF table = {} THEN {NoRow} ELSE table

\* session.get(Model, id)
RowById(table, id) ==
    IF \E r \in table : r.id = id THEN {r \in table : r.id = id} ELSE {NoRow}

\* select(Model).where(Model.slug == slug) ... .first()
RowBySlug(table, slug) ==
    IF \E r \in table : r.slug = slug THEN {r \in table : r.slug = slug}
    ELSE {NoRow}

LookupIds == {0, 1, 2, 3, 4, 6, 999999}
LookupSlugs == {"monitors", "ram", "memory", "p1", "mid-tower-gaming-case",
                "non-existent-slug"}

GetProductById(id) ==
    /\ ret = NoCall
    /\ \E v \in RowById(products, id) :
        ret' = [op |-> "get_product_by_id", arg |-> id, value |-> v]
    /\ UNCHANGED <<categories, brands, products, images, nextId, seed, page1>>

GetProductBySlug(slug) ==
    /\ ret = NoCall
    /\ \E v \in RowBySlug(products, slug) :
        ret' = [op |-> "get_product_by_slug", arg |-> slug, value |-> v]
    /\ UNCHANGED <<categories, brands, products, images, nextId, seed, page1>>

ProductImages(id) ==
    LET M == {i \in images : i.product_id = id}
    IN  Page(M, DisplayOrder(M), 0, Cardinality(M))

\* mutant of GetProductImages: when no image is primary the first one is
\* flagged and the change is written back
GetProductImagesFlaggingFirst(id) ==
    /\ ret = NoCall
    /\ \E v \in ProductImages(id) :
        /\ ret' = [op |-> "get_product_images", arg |-> id, value |-> v]
        /\ images' = IF v # <<>> /\ \A k \in DOMAIN v : ~v[k].is_primary
                     THEN (images \ {v[1]}) \cup {[v[1] EXCEPT !.is_primary = TRUE]}
                     ELSE images
    /\ UNCHANGED <<categories, brands, products, nextId, seed, page1>>

GetProductImages(id) ==
    /\ ret = NoCall
    /\ \E v \in ProductImages(id) :
        ret' = [op |-> "get_product_images", arg |-> id, value |-> v]
    /\ UNCHANGED <<categories, brands, products, images, nextId, seed, page1>>

\* mutant of FeaturedFilter: the status is not asked for
FeaturedFilterAnyStatus ==
    [category_id |-> Null, brand_id |-> Null, min_price |-> Null,
     max_price |-> FeaturedMaxPrice, status |-> NullStr,
     in_stock_only |-> TRUE, search_query |-> NullText]

\* ProductFilter(status=ACTIVE, in_stock_only=True, max_price=Decimal("200.00"))
FeaturedFilter ==
    [category_id |-> Null, brand_id |-> Null, min_price |-> Null,
     max_price |-> FeaturedMaxPrice, status |-> ACTIVE,
     in_stock_only |-> TRUE, search_query |-> NullText]

FeaturedLimit == 8
FeaturedLimits == {1, MaxLimit, FeaturedLimit}

GetFeaturedProducts(limit) ==
    /\ ret = NoCall
    /\ \E v \in ProductLists(FeaturedFilter, limit, 0) :
        ret' = [op |-> "get_featured_products", limit |-> limit, value |-> v]
    /\ UNCHANGED <<categories, brands, products, images, nextId, seed, page1>>

\* mutant of PriceRange: products of every status are considered
PriceRangeAllStatuses ==
    LET prices == {p.price : p \in products}
    IN  IF prices = {} THEN [min |-> FallbackMin, max |-> FallbackMax]
        ELSE [min |-> SetMin(prices), max |-> SetMax(prices)]

\* mutant of PriceRange: max is always the fallback
PriceRangeFallbackMax ==
    LET prices == {p.price : p \in {q \in products : q.status = ACTIVE}}
    IN  IF prices = {} THEN [min |-> FallbackMin, max |-> FallbackMax]
        ELSE [min |-> SetMin(prices), max |-> FallbackMax]

PriceRange ==
    LET prices == {p.price : p \in {q \in products : q.status = ACTIVE}}
    IN  IF prices = {} THEN [min |-> FallbackMin, max |-> FallbackMax]
        ELSE [min |-> SetMin(prices), max |-> SetMax(prices)]

GetPriceRange ==
    /\ ret = NoCall
    /\ ret' = [op |-> "get_price_range", value |-> PriceRange]
    /\ UNCHANGED <<categories, brands, products, images, nextId, seed, page1>>

-----------------------------------------------------------------------------
(* CategoryService, BrandService *)

\* ORDER BY name: the names the tables can hold, in the order every collation
\* gives them; "NVIDIA" and "Noctua" compare differently under byte order
\* and under a dictionary collation, so they stand at one rank
CategoryNameOrder ==
    << {"Cables"}, {"Cases"}, {"Graphics Cards"}, {"Memory"}, {"Monitors"},
       {"Motherboards"}, {"Peripherals"}, {"Power Supplies"}, {"Processors"},
       {"Storage"} >>

BrandNameOrder ==
    << {"AMD"}, {"ASUS"}, {"Corsair"}, {"Intel"}, {"Kingston"}, {"Logitech"},
       {"MSI"}, {"NVIDIA", "Noctua"}, {"Seagate"} >>

NameRank(order, name) == CHOOSE k \in DOMAIN order : name \in order[k]
ByName(M, order) == [r \in M |-> NameRank(order, r.name)]

\* every list a query over the rows M, ordered by name, can return
ListedByName(M, order) == Page(M, ByName(M, order), 0, Cardinality(M))

\* select(Category).where(Category.is_active)
ActiveCategories == {c \in categories : c.is_active}

\* mutant of RootCategories: parent_id is not asked for
RootCategoriesAnyParent == {c \in categories : c.is_active}

\* select(Category).where(text("parent_id IS NULL")).where(Category.is_active)
RootCategories == {c \in categories : c.parent_id = Null /\ c.is_active}

\* select(Brand).where(Brand.is_active)
ActiveBrands == {b \in brands : b.is_active}

GetAllCategories ==
    /\ ret = NoCall
    /\ \E v \in ListedByName(ActiveCategories, CategoryNameOrder) :
        ret' = [op |-> "get_all_categories", value |-> v]
    /\ UNCHANGED <<categories, brands, products, images, nextId, seed, page1>>

GetRootCategories ==
    /\ ret = NoCall
    /\ \E v \in ListedByName(RootCategories, CategoryNameOrder) :
        ret' = [op |-> "get_root_categories", value |-> v]
    /\ UNCHANGED <<categories, brands, products, images, nextId, seed, page1>>

GetAllBrands ==
    /\ ret = NoCall
    /\ \E v \in ListedByName(ActiveBrands, BrandNameOrder) :
        ret' = [op |-> "get_all_brands", value |-> v]
    /\ UNCHANGED <<categories, brands, products, images, nextId, seed, page1>>

\* mutant of CategoryProductCount: products of every status are counted
CategoryProductCountAll(c) ==
    Cardinality({p \in products : p.category_id = c.id})

\* len(select(Product).where(category_id == category.id)
\*                    .where(status == ACTIVE).all())
CategoryProductCount(c) ==
    Cardinality({p \in products : p.category_id = c.id /\ p.status = ACTIVE})

BrandProductCount(b) ==
    Cardinality({p \in products : p.brand_id = b.id /\ p.status = ACTIVE})

CategoryCounts(rows) ==
    [i \in DOMAIN rows |->
        [category |-> rows[i], product_count |-> CategoryProductCount(rows[i])]]

BrandCounts(rows) ==
    [i \in DOMAIN rows |->
        [brand |-> rows[i], product_count |-> BrandProductCount(rows[i])]]

GetCategoriesWithProductCounts ==
    /\ ret = NoCall
    /\ \E rows \in ListedByName(ActiveCategories, CategoryNameOrder) :
        ret' = [op |-> "get_categories_with_product_counts",
                value |-> CategoryCounts(rows)]
    /\ UNCHANGED <<categories, brands, products, images, nextId, seed, page1>>

GetBrandsWithProductCounts ==
    /\ ret = NoCall
    /\ \E rows \in ListedByName(ActiveBrands, BrandNameOrder) :
        ret' = [op |-> "get_brands_with_product_counts",
                value |-> BrandCounts(rows)]
    /\ UNCHANGED <<categories, brands, products, images, nextId, seed, page1>>

GetCategoryById(id) ==
    /\ ret = NoCall
    /\ \E v \in RowById(categories, id) :
        ret' = [op |-> "get_category_by_id", arg |-> id, value |-> v]
    /\ UNCHANGED <<categories, brands, products, images, nextId, seed, page1>>

GetCategoryBySlug(slug) ==
    /\ ret = NoCall
    /\ \E v \in RowBySlug(categories, slug) :
        ret' = [op |-> "get_category_by_slug", arg |-> slug, value |-> v]
    /\ UNCHANGED <<categories, brands, products, images, nextId, seed, page1>>

GetBrandById(id) ==
    /\ ret = NoCall
    /\ \E v \in RowById(brands, id) :
        ret' = [op |-> "get_brand_by_id", arg |-> id, value |-> v]
    /\ UNCHANGED <<categories, brands, products, images, nextId, seed, page1>>

-----------------------------------------------------------------------------
(* Components and page handlers.  Each service call a handler makes is a    *)
(* call site; the sites in `raising` raise when reached (the store is       *)
(* unreachable, a query fails).                                              *)

PageLimit == 50
RelatedLimit == 4
HomeCategoryLinks == 6

Placeholder == "placeholder"

First(list, n) == SubSeq(list, 1, Min(n, Len(list)))

\* ProductFilter(..., status=ProductStatus.ACTIVE) as the pages build it
ActiveFilter(category_id, search_query) ==
    [category_id |-> category_id, brand_id |-> Null, min_price |-> Null,
     max_price |-> Null, status |-> ACTIVE, in_stock_only |-> FALSE,
     search_query |-> search_query]

\* Decimal arithmetic of the default context: a quotient is rounded half
\* even to DecimalPrecision significant digits.  The quotient of 0 < r < o
\* is held as its digits after the decimal point, found by long division.
DecimalPrecision == 28

RECURSIVE LongDivision(_, _, _)
LongDivision(r, o, n) ==
    IF n = 0 THEN [digits |-> <<>>, rem |-> r]
    ELSE LET rest == LongDivision((r * 10) % o, o, n - 1)
         IN  [digits |-> <<(r * 10) \div o>> \o rest.digits, rem |-> rest.rem]

RECURSIVE LeadingZeros(_, _)
LeadingZeros(r, o) ==
    IF r = 0 \/ (r * 10) \div o # 0 THEN 0
    ELSE 1 + LeadingZeros((r * 10) % o, o)

\* one unit in the last place, with the carry that leaves the first digit
RECURSIVE AddOne(_)
AddOne(d) ==
    IF d = <<>> THEN [digits |-> <<>>, carry |-> TRUE]
    ELSE IF d[Len(d)] < 9
    THEN [digits |-> [d EXCEPT ![Len(d)] = @ + 1], carry |-> FALSE]
    ELSE LET front == AddOne(SubSeq(d, 1, Len(d) - 1))
         IN  [digits |-> Append(front.digits, 0), carry |-> front.carry]

DecimalDivide(r, o) ==
    LET n == LeadingZeros(r, o) + DecimalPrecision
        q == LongDivision(r, o, n)
        up == 2 * q.rem > o \/ (2 * q.rem = o /\ q.digits[n] % 2 = 1)
    IN  IF up THEN AddOne(q.digits) ELSE [digits |-> q.digits, carry |-> FALSE]

\* mutant of DiscountPercent: the percentage is rounded, not truncated
DiscountPercentRounded(price, original) ==
    LET q == DecimalDivide(original - price, original)
    IN  (IF q.carry THEN 100 ELSE 0) + 10 * q.digits[1] + q.digits[2]
            + (IF q.digits[3] >= 5 THEN 1 ELSE 0)

\* int(((original_price - price) / original_price) * 100)
DiscountPercent(price, original) ==
    LET q == DecimalDivide(original - price, original)
    IN  (IF q.carry THEN 100 ELSE 0) + 10 * q.digits[1] + q.digits[2]

\* if original_price and original_price > price: the percentage shown,
\* Null when no discount is displayed
Discount(price, original) ==
    IF original # Null /\ original # 0 /\ original > price
    THEN DiscountPercent(price, original) ELSE Null

\* ProductCard.render: the image and the discount of the card and the
\* product it links to
ProductCard(sm) ==
    [id |-> sm.id,
     image |-> IF sm.primary_image_url # NullStr THEN sm.primary_image_url
               ELSE Placeholder,
     discount |-> Discount(sm.price, sm.original_price)]

\* ProductGrid.render
ProductGrid(list) == [i \in DOMAIN list |-> ProductCard(list[i])]

\* ProductDetail._render_image_gallery:
\* next((img for img in self.images if img.is_primary), self.images[0])
Gallery(imgs) ==
    IF imgs = <<>> THEN Placeholder
    ELSE IF \E k \in DOMAIN imgs : imgs[k].is_primary
         THEN imgs[CHOOSE k \in DOMAIN imgs :
                    /\ imgs[k].is_primary
                    /\ \A j \in 1..(k - 1) : ~imgs[j].is_primary].image_url
         ELSE imgs[1].image_url

\* what a handler leaves behind: the call sites it reached, those that
\* raised, whether an exception left the handler, the messages on the page,
\* the logged errors and the content it rendered
PageResult(op, arg, calls, failed, escaped, labels, logged, shown) ==
    [op |-> op, arg |-> arg, calls |-> calls, failed |-> failed,
     escaped |-> escaped, labels |-> labels, logged |-> logged,
     shown |-> shown]

NothingShown == [none |-> TRUE]

\* NavigationBar().render() stands outside every try block
NavRaised(op, arg) ==
    PageResult(op, arg, <<"nav">>, {"nav"}, TRUE, {}, {}, NothingShown)

\* home_page: the featured section, then the category links
HomeFeatured(raising) ==
    IF "featured" \in raising
    THEN {[labels |-> {"Unable to load featured products"},
           logged |-> {"Error loading featured products"}, cards |-> <<>>]}
    ELSE {[labels |-> IF v = <<>> THEN {"No featured products available"}
                      ELSE {},
           logged |-> {}, cards |-> ProductGrid(v)] :
            v \in ProductLists(FeaturedFilter, FeaturedLimit, 0)}

HomeCategories(raising) ==
    IF "categories" \in raising
    THEN {[labels |-> {"Categories will be available soon"},
           logged |-> {"Error loading categories"}, links |-> <<>>]}
    ELSE {[labels |-> {}, logged |-> {},
           links |-> [i \in DOMAIN First(rows, HomeCategoryLinks) |-> rows[i].id]] :
            rows \in ListedByName(RootCategories, CategoryNameOrder)}

HomeSites == {"nav", "featured", "categories"}

HomePages(raising) ==
    IF "nav" \in raising THEN {NavRaised("home_page", Null)}
    ELSE {PageResult("home_page", Null, <<"nav", "featured", "categories">>,
                     raising, FALSE, f.labels \cup c.labels,
                     f.logged \cup c.logged,
                     [cards |-> f.cards, links |-> c.links]) :
            f \in HomeFeatured(raising), c \in HomeCategories(raising)}

HomePage ==
    /\ ret = NoCall
    /\ \E raising \in SUBSET HomeSites : \E r \in HomePages(raising) : ret' = r
    /\ UNCHANGED <<categories, brands, products, images, nextId, seed, page1>>

\* products_page: query parameters, the filter panel's options, the listing
QueryCategories == {NullStr, "1", "5", "gpu"}
QuerySearches == {NullText, <<"b">>}

\* int(query_params["category"]); Null when it raises ValueError
ParseCategory(text) ==
    CASE text = "1" -> 1
      [] text = "5" -> 5
      [] OTHER -> Null

ParamWarnings(category) ==
    IF category # NullStr /\ ParseCategory(category) = Null
    THEN {"Invalid category parameter in URL"} ELSE {}

\* load_products(filters)
LoadProducts(raising, category_id, search_query) ==
    IF "products" \in raising
    THEN {[labels |-> {"Error loading products. Please try again."},
           logged |-> {"Error loading products with filters"},
           found |-> Null, cards |-> <<>>]}
    ELSE {[labels |-> IF v = <<>> THEN {"No products found"} ELSE {},
           logged |-> {}, found |-> Len(v), cards |-> ProductGrid(v)] :
            v \in ProductLists(ActiveFilter(category_id, search_query),
                               PageLimit, 0)}

\* SimpleFilterPanel.__init__ -> _load_filter_options, outside any try block
FilterOptions ==
    {[categories |-> [i \in DOMAIN cs |-> cs[i].id],
      brands |-> [i \in DOMAIN bs |-> bs[i].id]] :
        cs \in ListedByName(ActiveCategories, CategoryNameOrder),
        bs \in ListedByName(ActiveBrands, BrandNameOrder)}

ProductsSites == {"nav", "categories", "brands", "products"}

ProductsPages(raising, category, search) ==
    LET arg == [category |-> category, search |-> search] IN
    IF "nav" \in raising THEN {NavRaised("products_page", arg)}
    ELSE IF "categories" \in raising
    THEN {PageResult("products_page", arg, <<"nav", "categories">>,
                     {"categories"}, TRUE, {}, ParamWarnings(category),
                     NothingShown)}
    ELSE IF "brands" \in raising
    THEN {PageResult("products_page", arg, <<"nav", "categories", "brands">>,
                     {"brands"}, TRUE, {}, ParamWarnings(category),
                     NothingShown)}
    ELSE {PageResult("products_page", arg,
                     <<"nav", "categories", "brands", "products">>,
                     raising, FALSE, l.labels,
                     l.logged \cup ParamWarnings(category),
                     [options |-> o, found |-> l.found, cards |-> l.cards]) :
            o \in FilterOptions,
            l \in LoadProducts(raising, ParseCategory(category), search)}

ProductsPage ==
    /\ ret = NoCall
    /\ \E raising \in SUBSET ProductsSites, category \in QueryCategories,
          search \in QuerySearches :
            \E r \in ProductsPages(raising, category, search) : ret' = r
    /\ UNCHANGED <<categories, brands, products, images, nextId, seed, page1>>

\* product_detail_page: the product, its gallery, the related products
RelatedProducts(raising, product) ==
    IF "related" \in raising
    THEN {[labels |-> {"Unable to load related products"},
           logged |-> {"Error loading related products"}, cards |-> <<>>]}
    ELSE {LET others == First(SelectSeq(v, LAMBDA sm : sm.id # product.id),
                              RelatedLimit)
          IN  [labels |-> IF others = <<>> THEN {"No related products found"}
                          ELSE {},
               logged |-> {}, cards |-> ProductGrid(others)] :
            v \in ProductLists(ActiveFilter(product.category_id, NullText),
                               RelatedLimit, 0)}

ProductErrorLabels ==
    {"Error Loading Product", "There was an error loading the product details."}

DetailSites == {"nav", "product", "images", "related"}

ProductDetailPages(raising, product_id) ==
    LET op == "product_detail_page" IN
    IF "nav" \in raising THEN {NavRaised(op, product_id)}
    ELSE IF "product" \in raising
    THEN {PageResult(op, product_id, <<"nav", "product">>, {"product"}, FALSE,
                     ProductErrorLabels, {"Error loading product"},
                     NothingShown)}
    ELSE UNION {
        IF product = NoRow
        THEN {PageResult(op, product_id, <<"nav", "product">>, {}, FALSE,
                         {"Product Not Found"}, {}, NothingShown)}
        ELSE IF "images" \in raising
        THEN {PageResult(op, product_id, <<"nav", "product", "images">>,
                         {"images"}, FALSE, ProductErrorLabels,
                         {"Error loading product"}, NothingShown)}
        ELSE {PageResult(op, product_id,
                         <<"nav", "product", "images", "related">>,
                         raising, FALSE, r.labels, r.logged,
                         [product |-> product.id, gallery |-> Gallery(imgs),
                          discount |-> Discount(product.price,
                                                product.original_price),
                          cards |-> r.cards]) :
                imgs \in ProductImages(product.id),
                r \in RelatedProducts(raising, product)} :
        product \in RowById(products, product_id)}

ProductDetailPage ==
    /\ ret = NoCall
    /\ \E raising \in SUBSET DetailSites, product_id \in LookupIds :
            \E r \in ProductDetailPages(raising, product_id) : ret' = r
    /\ UNCHANGED <<categories, brands, products, images, nextId, seed, page1>>

\* category_page: the category, then its active products
CategoryProducts(raising, category) ==
    IF "products" \in raising
    THEN {[labels |-> {"Error loading category products"},
           logged |-> {"Error loading products for category"},
           found |-> Null, cards |-> <<>>]}
    ELSE {[labels |-> IF v = <<>> THEN {"No products in this category yet"}
                      ELSE {},
           logged |-> {}, found |-> Len(v), cards |-> ProductGrid(v)] :
            v \in ProductLists(ActiveFilter(category.id, NullText),
                               PageLimit, 0)}

CategorySites == {"nav", "category", "products"}

CategoryPages(raising, slug) ==
    LET op == "category_page" IN
    IF "nav" \in raising THEN {NavRaised(op, slug)}
    ELSE IF "category" \in raising
    THEN {PageResult(op, slug, <<"nav", "category">>, {"category"}, FALSE,
                     {"Error Loading Category"}, {"Error loading category"},
                     NothingShown)}
    ELSE UNION {
        IF category = NoRow
        THEN {PageResult(op, slug, <<"nav", "category">>, {}, FALSE,
                         {"Category Not Found"}, {}, NothingShown)}
        ELSE {PageResult(op, slug, <<"nav", "category", "products">>,
                         raising, FALSE, l.labels, l.logged,
                         [category |-> category.id, found |-> l.found,
                          cards |-> l.cards]) :
                l \in CategoryProducts(raising, category)} :
        category \in RowBySlug(categories, slug)}

CategoryPage ==
    /\ ret = NoCall
    /\ \E raising \in SUBSET CategorySites, slug \in LookupSlugs :
            \E r \in CategoryPages(raising, slug) : ret' = r
    /\ UNCHANGED <<categories, brands, products, images, nextId, seed, page1>>

-----------------------------------------------------------------------------
(* Callers *)

\* the caller is done with the returned value
Done ==
    /\ ret # NoCall
    /\ ret' = NoCall
    /\ UNCHANGED <<categories, brands, products, images, nextId, seed, page1>>

\* test_pagination: page1 = get_products(limit, offset), kept for comparison
KeepPage ==
    /\ ret # NoCall
    /\ ret.op = "get_products"
    /\ page1' = ret
    /\ ret' = NoCall
    /\ UNCHANGED <<categories, brands, products, images, nextId, seed>>

\* invocations of the seeder follow one another (startup, tests)
SeedTurn(s) == \A t \in Seeders : t < s => Finished(t)

\* service calls are synchronous: nothing runs while a caller holds a result
Idle == ret = NoCall

Next ==
    \/ \E s \in Seeders : Idle /\ SeedTurn(s) /\ SeedCheck(s)
    \/ \E s \in Seeders : Idle /\ SeedCategories(s)
    \/ \E s \in Seeders : Idle /\ SeedBrands(s)
    \/ \E s \in Seeders : Idle /\ SeedProducts(s)
    \/ \E s \in Seeders : Idle /\ SeedImages(s)
    \/ Idle /\ \E f \in Filters, limit \in Limits, offset \in Offsets :
                GetProducts(f, limit, offset)
    \/ Idle /\ \E id \in LookupIds : GetProductById(id)
    \/ Idle /\ \E slug \in LookupSlugs : GetProductBySlug(slug)
    \/ Idle /\ \E id \in LookupIds : GetProductImages(id)
    \/ Idle /\ \E limit \in FeaturedLimits : GetFeaturedProducts(limit)
    \/ GetPriceRange
    \/ Idle /\ \E id \in LookupIds : GetCategoryById(id)
    \/ Idle /\ \E slug \in LookupSlugs : GetCategoryBySlug(slug)
    \/ Idle /\ \E id \in LookupIds : GetBrandById(id)
    \/ GetAllCategories
    \/ GetRootCategories
    \/ GetAllBrands
    \/ GetCategoriesWithProductCounts
    \/ GetBrandsWithProductCounts
    \/ HomePage
    \/ ProductsPage
    \/ ProductDetailPage
    \/ CategoryPage
    \/ Done

Spec == Init /\ [][Next]_vars

\* test_pagination: two pages of one listing are compared
PageFilters ==
    {NoFilters,
     [category_id |-> Null, brand_id |-> Null, min_price |-> Null,
      max_price |-> Null, status |-> ACTIVE, in_stock_only |-> FALSE,
      search_query |-> NullText]}

NextPages ==
    \/ \E s \in Seeders : Idle /\ SeedTurn(s) /\ SeedCheck(s)
    \/ \E s \in Seeders : Idle /\ SeedCategories(s)
    \/ \E s \in Seeders : Idle /\ SeedBrands(s)
    \/ \E s \in Seeders : Idle /\ SeedProducts(s)
    \/ \E s \in Seeders : Idle /\ SeedImages(s)
    \/ Idle /\ \E f \in PageFilters, limit \in Limits, offset \in Offsets :
                GetProducts(f, limit, offset)
    \/ KeepPage
    \/ Done

SpecPages == Init /\ [][NextPages]_vars

\* startups that follow one another, some of them cut short
NextRestarts ==
    \/ \E s \in Seeders : Idle /\ SeedTurn(s) /\ SeedCheck(s)
    \/ \E s \in Seeders : Idle /\ SeedCategories(s)
    \/ \E s \in Seeders : Idle /\ SeedBrands(s)
    \/ \E s \in Seeders : Idle /\ SeedProducts(s)
    \/ \E s \in Seeders : Idle /\ SeedImages(s)
    \/ \E s \in Seeders : Idle /\ SeedStop(s)
    \/ Idle /\ \E f \in PageFilters, limit \in Limits, offset \in Offsets :
                GetProducts(f, limit, offset)
    \/ GetAllCategories
    \/ GetAllBrands
    \/ Done

SpecRestarts == Init /\ [][NextRestarts]_vars

\* a store whose one category holds up to MaxCrowd active products, each
\* created after the one before
CrowdKeys == <<"c1", "c2", "c3", "c4", "c5", "c6", "c7">>

CrowdProduct(i) ==
    [id |-> i, name |-> <<"p">>, description |-> <<>>, sku |-> CrowdKeys[i],
     price |-> 1000 * i, original_price |-> Null, status |-> ACTIVE,
     category_id |-> 1, brand_id |-> Null, stock_quantity |-> 1,
     slug |-> CrowdKeys[i], created_at |-> i]

InitRelated ==
    \E k \in 0..Min(MaxCrowd, Len(CrowdKeys)) :
        /\ categories = {CategoryPool[1]}
        /\ brands = {}
        /\ products = {CrowdProduct(i) : i \in 1..k}
        /\ images = {}
        /\ nextId = [categories |-> 2, brands |-> 1, products |-> k + 1,
                     images |-> 1]
        /\ seed = [s \in Seeders |-> IdleSeed]
        /\ ret = NoCall
        /\ page1 = NoCall

NextRelated ==
    \/ ProductDetailPage
    \/ Idle /\ \E f \in PageFilters, limit \in Limits, offset \in Offsets :
                GetProducts(f, limit, offset)
    \/ Done

SpecRelated == InitRelated /\ [][NextRelated]_vars

\* requests and startups of several workers: invocations of the seeder
\* interleave at the granularity of their queries and commits
NextConcurrent ==
    \/ \E s \in Seeders : Idle /\ SeedCheck(s)
    \/ \E s \in Seeders : Idle /\ SeedCategories(s)
    \/ \E s \in Seeders : Idle /\ SeedBrands(s)
    \/ \E s \in Seeders : Idle /\ SeedProducts(s)
    \/ \E s \in Seeders : Idle /\ SeedImages(s)
    \/ Idle /\ \E f \in PageFilters, limit \in Limits, offset \in Offsets :
                GetProducts(f, limit, offset)
    \/ GetAllCategories
    \/ GetAllBrands
    \/ Done

SpecConcurrent == Init /\ [][NextConcurrent]_vars

-----------------------------------------------------------------------------
(* Properties *)

IsProductList == ret # NoCall /\ ret.op = "get_products"
Filtered == IsProductList /\ ret.filters # NoFilters
ListedProduct(sm) == CHOOSE p \in products : p.id = sm.id

\* invocation s found the store empty and has run to its end
SeededFromEmpty(s) == seed[s].pc = "done" /\ seed[s].empty

\* C1: every summary returned by get_products satisfies each range/flag
\* predicate that is set: price >= min_price, price <= max_price,
\* stock_quantity > 0 under in_stock_only, status = filters.status.
C1_FilterPredicatesHold ==
    Filtered =>
        \A i \in DOMAIN ret.value :
            /\ ret.filters.min_price # Null =>
                    ret.value[i].price >= ret.filters.min_price
            /\ ret.filters.max_price # Null =>
                    ret.value[i].price <= ret.filters.max_price
            /\ ret.filters.in_stock_only => ret.value[i].stock_quantity > 0
            /\ ret.filters.status # NullStr =>
                    ret.value[i].status = ret.filters.status

\* a price window that keeps one product and rejects another
C1_Witness ==
    /\ Filtered
    /\ ret.filters.min_price # Null
    /\ ret.filters.max_price # Null
    /\ ret.value # <<>>
    /\ \E p \in products : p.price > ret.filters.max_price

\* C2: with category_id = c (brand_id = b) every summary is of a product of
\* category c (brand b) and carries the name of category c (brand b).
C2_CategoryBrandMatch ==
    Filtered =>
        \A i \in DOMAIN ret.value :
            /\ \E p \in products : p.id = ret.value[i].id
            /\ ret.filters.category_id # Null =>
                /\ ListedProduct(ret.value[i]).category_id = ret.filters.category_id
                /\ \E c \in categories :
                    /\ c.id = ret.filters.category_id
                    /\ c.name = ret.value[i].category_name
            /\ ret.filters.brand_id # Null =>
                /\ ListedProduct(ret.value[i]).brand_id = ret.filters.brand_id
                /\ \E b \in brands :
                    /\ b.id = ret.filters.brand_id
                    /\ b.name = ret.value[i].brand_name

\* a category filter that keeps one product while another category has one
C2_Witness ==
    /\ Filtered
    /\ ret.filters.category_id # Null
    /\ ret.value # <<>>
    /\ \E p \in products :
        p.category_id \notin {Null, ret.filters.category_id}

\* C3: from an empty store, a second seed_sample_data run ends normally and
\* leaves the product count the first run left.
C3_SeedingIdempotent ==
    \A s \in Seeders :
        (s > 1 /\ SeededFromEmpty(1) /\ Finished(s)) =>
            /\ seed[s].pc = "done"
            /\ seed[s].count = seed[1].count

C3_Witness ==
    /\ SeededFromEmpty(1)
    /\ seed[2].pc = "done"
    /\ seed[2].count = Len(products_data)

\* C4: invoked while a product row exists, the seeder returns at once and
\* leaves all four tables as they are; a returned invocation does no more.
C4_SeederSkipsWhenProductsExist ==
    [][\A s \in Seeders :
        /\ (seed[s].pc = "idle" /\ seed'[s].pc # "idle" /\ products # {}) =>
                (seed'[s].pc = "done" /\ store' = store)
        /\ seed[s].pc = "done" => seed'[s] = seed[s]]_vars

\* the seeder has returned on a store with products but no category or brand
C4_Witness ==
    /\ seed[1].pc = "done"
    /\ seed[1].categories = <<>>
    /\ products # {}
    /\ categories = {}
    /\ brands = {}

Ids(list) == {list[i].id : i \in DOMAIN list}

SameListing ==
    /\ page1 # NoCall
    /\ IsProductList
    /\ page1.filters = ret.filters
    /\ page1.limit = ret.limit

\* C5: two pages of one listing (same filters and limit) whose windows
\* [offset, offset + limit) do not overlap share no product id.
C5_PagesDisjoint ==
    (/\ SameListing
     /\ \/ page1.offset + page1.limit <= ret.offset
        \/ ret.offset + ret.limit <= page1.offset)
        => Ids(page1.value) \cap Ids(ret.value) = {}

IsPriceRange == ret # NoCall /\ ret.op = "get_price_range"
Fallback == [min |-> FallbackMin, max |-> FallbackMax]

\* C6 as stated: the fallback on an empty catalog; on every non-empty one
\* min <= max and both are prices of products of the catalog.
C6_PriceRangeOfCatalog ==
    IsPriceRange =>
        IF products = {} THEN ret.value = Fallback
        ELSE /\ ret.value.min <= ret.value.max
             /\ \E p \in products : p.price = ret.value.min
             /\ \E p \in products : p.price = ret.value.max

\* C6 amended: the fallback when no product is active (the empty catalog
\* included); with an active product min <= max and both are prices of
\* products of the catalog.
C6_PriceRangeOfActive ==
    IsPriceRange =>
        IF \A p \in products : p.status # ACTIVE THEN ret.value = Fallback
        ELSE /\ ret.value.min <= ret.value.max
             /\ \E p \in products : p.price = ret.value.min
             /\ \E p \in products : p.price = ret.value.max

\* a range over a catalog that mixes active and inactive products
C6_Witness ==
    /\ IsPriceRange
    /\ \E p \in products : p.status = ACTIVE
    /\ \E p \in products : p.status # ACTIVE
    /\ ret.value.min < ret.value.max

\* q occurs in s as a literal substring, letter case ignored
Contains(s, q) ==
    \E k \in 0..(Len(s) - Len(q)) :
        \A j \in 1..Len(q) : Lower(s[k + j]) = Lower(q[j])

\* C7: a non-empty search_query q returns only products whose name or
\* description contains q literally, letter case ignored.
C7_SearchIsLiteralSubstring ==
    (Filtered /\ ret.filters.search_query \notin {NullText, <<>>}) =>
        \A i \in DOMAIN ret.value :
            \/ Contains(ListedProduct(ret.value[i]).name, ret.filters.search_query)
            \/ Contains(ListedProduct(ret.value[i]).description,
                        ret.filters.search_query)

LookupTable ==
    CASE ret.op \in {"get_product_by_id", "get_product_by_slug"} -> products
      [] ret.op \in {"get_category_by_id", "get_category_by_slug"} -> categories
      [] ret.op = "get_brand_by_id" -> brands

\* C8: a lookup by id (by slug) returns the stored row with that id (slug)
\* when there is one and None when there is none.
C8_LookupsExact ==
    /\ (ret # NoCall /\ ret.op \in {"get_product_by_id", "get_category_by_id",
                                    "get_brand_by_id"}) =>
            IF \E r \in LookupTable : r.id = ret.arg
            THEN ret.value \in LookupTable /\ ret.value.id = ret.arg
            ELSE ret.value = NoRow
    /\ (ret # NoCall /\ ret.op \in {"get_product_by_slug",
                                    "get_category_by_slug"}) =>
            IF \E r \in LookupTable : r.slug = ret.arg
            THEN ret.value \in LookupTable /\ ret.value.slug = ret.arg
            ELSE ret.value = NoRow

\* an id that is absent from a table that holds other rows
C8_Witness ==
    /\ ret # NoCall
    /\ ret.op = "get_product_by_id"
    /\ ret.value = NoRow
    /\ products # {}

ExampleFilter ==
    [category_id |-> Null, brand_id |-> Null, min_price |-> Null,
     max_price |-> FeaturedMaxPrice, status |-> NullStr, in_stock_only |-> TRUE,
     search_query |-> NullText]

ExampleCall ==
    /\ \E s \in Seeders : SeededFromEmpty(s)
    /\ IsProductList
    /\ ret.filters = ExampleFilter
    /\ ret.limit = DefaultLimit
    /\ ret.offset = 0

ListedSlugs == {ListedProduct(ret.value[i]).slug : i \in DOMAIN ret.value}

SixCheapSlugs ==
    {"16gb-ddr4-3200-gaming-memory", "1tb-nvme-ssd-gaming-drive",
     "b550-gaming-motherboard", "650w-80plus-gold-gaming-psu",
     "mid-tower-gaming-case", "mechanical-gaming-keyboard"}

\* C9 as stated: on the seeded store, in_stock_only with max_price 200.00
\* returns exactly memory kit, SSD, motherboard, PSU, case and keyboard.
C9_ExampleReturnsSix ==
    ExampleCall => ListedSlugs = SixCheapSlugs

\* C9 amended: it returns those six and the Ryzen 5 5600X processor
\* (199.99), and leaves out only the RTX 4060 graphics card (299.99).
C9_ExampleReturnsSeven ==
    ExampleCall =>
        /\ ListedSlugs = SixCheapSlugs \cup {"ryzen-5-5600x-processor"}
        /\ Len(ret.value) = Cardinality(ListedSlugs)
        /\ "rtx-4060-gaming-graphics-card" \notin ListedSlugs

C9_Witness == ExampleCall /\ ret.value # <<>>

\* C10: a run on an empty store leaves 8 categories, 8 brands, 8 products
\* and 8 images; each product has exactly one image, which is primary, and
\* get_product_images of a seeded product returns a list with a primary
\* image of that product.
C10_SeededCounts ==
    (\E s \in Seeders : SeededFromEmpty(s)) =>
        /\ Cardinality(categories) = 8
        /\ Cardinality(brands) = 8
        /\ Cardinality(products) = 8
        /\ Cardinality(images) = 8
        /\ \A p \in products :
            /\ Cardinality({i \in images : i.product_id = p.id}) = 1
            /\ \A i \in images : i.product_id = p.id => i.is_primary
        /\ \A i \in images : \E p \in products : p.id = i.product_id
        /\ (ret # NoCall /\ ret.op = "get_product_images"
                /\ \E p \in products : p.id = ret.arg) =>
                \E k \in DOMAIN ret.value :
                    ret.value[k].is_primary /\ ret.value[k].product_id = ret.arg

C10_Witness ==
    /\ \E s \in Seeders : SeededFromEmpty(s)
    /\ ret # NoCall
    /\ ret.op = "get_product_images"
    /\ Len(ret.value) = 1

\* the rows a finished or running invocation s has committed, by list position
SeededProduct(s, i) == CHOOSE p \in products : p.id = seed[s].products[i]
HasSeededProducts(s) == seed[s].products # <<>>

\* C11 (as stated): the i-th seeded product references the i-th seeded
\* category and the i-th seeded brand.
C11_ProductsByPosition ==
    \A s \in Seeders : HasSeededProducts(s) =>
        \A i \in 1..8 :
            /\ SeededProduct(s, i).category_id = seed[s].categories[i]
            /\ SeededProduct(s, i).brand_id = seed[s].brands[i]

\* list positions (from 1) of the brands the eight products name:
\* NVIDIA, AMD, Corsair, Kingston, ASUS, Corsair, MSI, Corsair
BrandPositions == <<1, 2, 4, 7, 5, 4, 6, 4>>

\* C11 (amended): the i-th seeded product references the i-th seeded
\* category, and the seeded brand at the list index its entry names
\* (0, 1, 3, 6, 4, 3, 5, 3 counted from 0); three products share Corsair
\* and Intel and Seagate have no product.
C11_ProductsByListIndex ==
    \A s \in Seeders : HasSeededProducts(s) =>
        /\ Len(seed[s].products) = 8
        /\ \A i \in 1..8 :
            /\ SeededProduct(s, i).category_id = seed[s].categories[i]
            /\ SeededProduct(s, i).brand_id = seed[s].brands[BrandPositions[i]]
            /\ \E c \in categories : c.id = SeededProduct(s, i).category_id
            /\ \E b \in brands : b.id = SeededProduct(s, i).brand_id

C11_Witness ==
    \E s \in Seeders : SeededFromEmpty(s) /\ HasSeededProducts(s)

\* the invocation that takes the step
Stepping(s) == seed'[s] # seed[s]
IdsOf(table) == {r.id : r \in table}

\* C12: a seeder run commits categories, then brands, then products, then
\* images: a step that commits brand rows finds all 8 categories of the run
\* in the store, one that commits product rows finds all 8 brands, one that
\* commits image rows finds all 8 products, and no step commits rows of two
\* tables.
C12_StagedCommits ==
    [][\A s \in Seeders : Stepping(s) =>
        /\ categories' # categories =>
              brands' = brands /\ products' = products /\ images' = images
              /\ seed[s].brands = <<>> /\ seed[s].products = <<>>
        /\ brands' # brands =>
              /\ Len(seed[s].categories) = 8
              /\ Range(seed[s].categories) \subseteq IdsOf(categories)
              /\ products' = products /\ images' = images
              /\ seed[s].products = <<>>
        /\ products' # products =>
              /\ Len(seed[s].brands) = 8
              /\ Range(seed[s].brands) \subseteq IdsOf(brands)
              /\ Range(seed[s].categories) \subseteq IdsOf(categories)
              /\ images' = images
        /\ images' # images =>
              /\ Len(seed[s].products) = 8
              /\ Range(seed[s].products) \subseteq IdsOf(products)]_vars

C12_Witness ==
    \E s \in Seeders :
        /\ seed[s].empty
        /\ seed[s].pc = "images"
        /\ Cardinality(products) = 8
        /\ images = {}

\* isoformat texts of equal width compare as their timestamps do
IsoAtLeast(a, b) == a[1] > b[1] \/ (a[1] = b[1] /\ a[2] >= b[2])
NewestFirst(list) ==
    \A i, j \in DOMAIN list :
        i < j => IsoAtLeast(list[i].created_at, list[j].created_at)

IsFeatured == ret # NoCall /\ ret.op = "get_featured_products"

\* C13: get_featured_products(limit) returns at most limit summaries, each
\* of an active product with stock_quantity > 0 and price <= 200.00, most
\* recently created first.
C13_FeaturedProducts ==
    IsFeatured =>
        /\ Len(ret.value) <= ret.limit
        /\ \A i \in DOMAIN ret.value :
            /\ ret.value[i].status = ACTIVE
            /\ ret.value[i].stock_quantity > 0
            /\ ret.value[i].price <= 20000
            /\ \E p \in products :
                /\ p.id = ret.value[i].id
                /\ p.status = ACTIVE /\ p.stock_quantity > 0 /\ p.price <= 20000
        /\ NewestFirst(ret.value)

C13_Witness ==
    /\ IsFeatured
    /\ Len(ret.value) = ret.limit
    /\ Len(ret.value) >= 2
    /\ ret.value[1].created_at # ret.value[2].created_at
    /\ \E p \in products :
        p.status = ACTIVE /\ p.stock_quantity > 0 /\ p.price > 20000

\* C14: in every list get_products returns, the summary at position i was
\* created no earlier than the one at any later position j.
C14_NewestFirst ==
    IsProductList =>
        /\ NewestFirst(ret.value)
        /\ \A i, j \in DOMAIN ret.value :
            i < j => ListedProduct(ret.value[i]).created_at
                        >= ListedProduct(ret.value[j]).created_at

C14_Witness ==
    /\ IsProductList
    /\ Len(ret.value) >= 2
    /\ ret.value[1].created_at # ret.value[2].created_at
    /\ \E p \in products : \A i \in DOMAIN ret.value : p.id # ret.value[i].id

ReadOps ==
    {"get_products", "get_featured_products", "get_product_by_id",
     "get_product_by_slug", "get_product_images", "get_price_range",
     "get_category_by_id", "get_category_by_slug", "get_brand_by_id",
     "get_all_categories", "get_root_categories", "get_all_brands",
     "get_categories_with_product_counts", "get_brands_with_product_counts"}

\* C15: a call of get_products, for every filter, limit and offset, and of
\* every other read accessor, leaves the categories, brands, products and
\* product_images tables as they were before the call.
C15_ReadsLeaveStore ==
    [][(ret' # NoCall /\ ret' # ret /\ ret'.op \in ReadOps) =>
            /\ categories' = categories
            /\ brands' = brands
            /\ products' = products
            /\ images' = images]_vars

C15_Witness ==
    /\ IsProductList
    /\ ret.filters # NoFilters
    /\ ret.value # <<>>
    /\ Cardinality(images) > 0

NoDuplicates(list) == \A i, j \in DOMAIN list : list[i] = list[j] => i = j

\* C18: get_all_categories and get_all_brands return exactly the rows with
\* is_active = true, get_root_categories exactly the active categories
\* without a parent; no inactive row and no category with a parent is
\* returned by get_root_categories.
C18_ActiveAndRootListings ==
    /\ (ret # NoCall /\ ret.op = "get_all_categories") =>
          /\ Range(ret.value) = {c \in categories : c.is_active = TRUE}
          /\ NoDuplicates(ret.value)
    /\ (ret # NoCall /\ ret.op = "get_all_brands") =>
          /\ Range(ret.value) = {b \in brands : b.is_active = TRUE}
          /\ NoDuplicates(ret.value)
    /\ (ret # NoCall /\ ret.op = "get_root_categories") =>
          /\ Range(ret.value) =
                {c \in categories : c.is_active = TRUE /\ c.parent_id = Null}
          /\ NoDuplicates(ret.value)
          /\ \A i \in DOMAIN ret.value :
                ret.value[i].is_active /\ ret.value[i].parent_id = Null

C18_Witness ==
    /\ ret # NoCall
    /\ ret.op = "get_root_categories"
    /\ ret.value # <<>>
    /\ \E c \in categories : c.is_active /\ c.parent_id # Null

IsCategoryCounts ==
    ret # NoCall /\ ret.op = "get_categories_with_product_counts"
IsBrandCounts ==
    ret # NoCall /\ ret.op = "get_brands_with_product_counts"

\* one entry per active row of the table
OnePerActive(list, field, table) ==
    /\ {list[i][field] : i \in DOMAIN list} = {r \in table : r.is_active}
    /\ Len(list) = Cardinality({r \in table : r.is_active})

\* C19 (as stated): one entry per active category (brand), whose
\* product_count is the number of products that reference it; never negative.
C19_CountsAllProducts ==
    /\ IsCategoryCounts =>
          /\ OnePerActive(ret.value, "category", categories)
          /\ \A i \in DOMAIN ret.value :
                /\ ret.value[i].product_count >= 0
                /\ ret.value[i].product_count = Cardinality(
                      {p \in products : p.category_id = ret.value[i].category.id})
    /\ IsBrandCounts =>
          /\ OnePerActive(ret.value, "brand", brands)
          /\ \A i \in DOMAIN ret.value :
                /\ ret.value[i].product_count >= 0
                /\ ret.value[i].product_count = Cardinality(
                      {p \in products : p.brand_id = ret.value[i].brand.id})

\* C19 (amended): product_count is the number of products with status
\* active that reference the category (brand).
C19_CountsActiveProducts ==
    /\ IsCategoryCounts =>
          /\ OnePerActive(ret.value, "category", categories)
          /\ \A i \in DOMAIN ret.value :
                /\ ret.value[i].product_count >= 0
                /\ ret.value[i].product_count = Cardinality(
                      {p \in products : /\ p.category_id = ret.value[i].category.id
                                        /\ p.status = ACTIVE})
    /\ IsBrandCounts =>
          /\ OnePerActive(ret.value, "brand", brands)
          /\ \A i \in DOMAIN ret.value :
                /\ ret.value[i].product_count >= 0
                /\ ret.value[i].product_count = Cardinality(
                      {p \in products : /\ p.brand_id = ret.value[i].brand.id
                                        /\ p.status = ACTIVE})

C19_Witness ==
    /\ IsCategoryCounts
    /\ \E i \in DOMAIN ret.value :
        /\ ret.value[i].product_count >= 1
        /\ \E p \in products :
            p.category_id = ret.value[i].category.id /\ p.status # ACTIVE

\* C17: a filter no product matches (an unknown category_id or brand_id,
\* min_price > max_price) and an offset past the end of the result make
\* get_products return the empty list.
C17_UnmatchedIsEmpty ==
    IsProductList =>
        /\ (ret.filters # NoFilters
                /\ ret.filters.category_id # Null
                /\ ~\E c \in categories : c.id = ret.filters.category_id)
              => ret.value = <<>>
        /\ (ret.filters # NoFilters
                /\ ret.filters.brand_id # Null
                /\ ~\E b \in brands : b.id = ret.filters.brand_id)
              => ret.value = <<>>
        /\ (ret.filters # NoFilters
                /\ ret.filters.min_price # Null /\ ret.filters.max_price # Null
                /\ ret.filters.min_price > ret.filters.max_price)
              => ret.value = <<>>
        /\ ret.offset >= Cardinality(products) => ret.value = <<>>
        /\ Len(ret.value) <= Max(0, Cardinality(products) - ret.offset)

C17_Witness ==
    /\ IsProductList
    /\ ret.filters # NoFilters
    /\ ret.filters.min_price # Null /\ ret.filters.max_price # Null
    /\ ret.filters.min_price > ret.filters.max_price
    /\ \E p \in products : p.price >= ret.filters.min_price
    /\ \E p \in products : p.price <= ret.filters.max_price
    /\ ret.value = <<>>

PageOps == {"home_page", "products_page", "product_detail_page", "category_page"}
IsPage == ret # NoCall /\ ret.op \in PageOps

\* C16: an exception a service call raises during a page's data load (the
\* navigation bar's and the filter panel's loads included) never leaves the
\* page handler: the page shows a message, an error is logged, and no call
\* site is entered a second time.
C16_PageErrorsCaught ==
    IsPage =>
        /\ ~ret.escaped
        /\ ret.failed # {} => ret.labels # {} /\ ret.logged # {}
        /\ NoDuplicates(ret.calls)

HasImages(id) == \E i \in images : i.product_id = id
NoPrimary(id) == HasImages(id) /\ \A i \in images : i.product_id = id => ~i.is_primary
FirstImageUrls(id) == {v[1].image_url : v \in ProductImages(id)}

\* C20: for a product with at least one image and none flagged is_primary,
\* the summary get_products builds carries the first image's url as
\* primary_image_url, and the detail page's gallery shows the first image.
C20_FallbackToFirstImage ==
    /\ IsProductList =>
          \A i \in DOMAIN ret.value :
              NoPrimary(ret.value[i].id) =>
                  ret.value[i].primary_image_url \in FirstImageUrls(ret.value[i].id)
    /\ (ret # NoCall /\ ret.op = "product_detail_page"
            /\ ret.shown # NothingShown) =>
          (NoPrimary(ret.shown.product) =>
              ret.shown.gallery \in FirstImageUrls(ret.shown.product))

\* the text is not empty
NonEmptyText(t) == t # <<>> /\ t # NullText

\* C21: after seeding an empty store, get_products without filters returns
\* a non-empty list and every summary has id > 0, a non-empty name,
\* price > 0 and status active.
C21_SeededListing ==
    (IsProductList /\ ret.filters = NoFilters /\ ret.offset = 0
        /\ \E s \in Seeders : SeededFromEmpty(s)) =>
        /\ ret.value # <<>>
        /\ \A i \in DOMAIN ret.value :
            /\ ret.value[i].id > 0
            /\ NonEmptyText(ret.value[i].name)
            /\ ret.value[i].price > 0
            /\ ret.value[i].status = ACTIVE

C21_Witness ==
    /\ IsProductList /\ ret.filters = NoFilters /\ ret.offset = 0
    /\ ret.limit = DefaultLimit
    /\ \E s \in Seeders : SeededFromEmpty(s)
    /\ Len(ret.value) = 8

ImagesOf(id) == {i \in images : i.product_id = id}

\* C23: primary_image_url of a summary is the image_url of an image of the
\* same product flagged is_primary when there is one, and None when the
\* product has no image flagged is_primary.
C23_PrimaryImageUrl ==
    IsProductList =>
        \A i \in DOMAIN ret.value :
            IF \E img \in ImagesOf(ret.value[i].id) : img.is_primary
            THEN \E img \in ImagesOf(ret.value[i].id) :
                    img.is_primary /\ img.image_url = ret.value[i].primary_image_url
            ELSE ret.value[i].primary_image_url = NullStr

C23_Witness ==
    /\ IsProductList
    /\ \E i, j \in DOMAIN ret.value :
        /\ ret.value[i].primary_image_url # NullStr
        /\ ret.value[j].primary_image_url = NullStr
        /\ ImagesOf(ret.value[j].id) # {}

ActivePrices == {p.price : p \in {q \in products : q.status = ACTIVE}}

\* C24: with at least one active product, min and max of get_price_range
\* are the least and the greatest price over the active products, whatever
\* the prices of out_of_stock and discontinued products; on a store without
\* products the fallback range is returned.
C24_ActivePricesOnly ==
    IsPriceRange =>
        /\ ActivePrices # {} =>
            /\ ret.value.min \in ActivePrices
            /\ ret.value.max \in ActivePrices
            /\ \A x \in ActivePrices : ret.value.min <= x /\ x <= ret.value.max
        /\ products = {} => ret.value = [min |-> 0, max |-> 100000]

C24_Witness ==
    /\ IsPriceRange
    /\ ActivePrices # {}
    /\ \E p \in products : p.status # ACTIVE /\ p.price > ret.value.max

\* the products the filters of the returned call select
Selected == Matching(ret.filters)
WindowSize(n, limit, offset) == Min(limit, Max(0, n - offset))

\* C25: get_products(filters, limit, offset) returns the window
\* [offset, offset + limit) of the matching products in display order: its
\* length is that of the window, never above limit, every entry is a
\* matching product at a position its timestamp allows, none twice; filters
\* = None and an empty or absent search_query add no predicate.
C25_WindowOfMatching ==
    IsProductList =>
        /\ Len(ret.value) <= ret.limit
        /\ Len(ret.value) =
                WindowSize(Cardinality(Selected), ret.limit, ret.offset)
        /\ \A i, j \in DOMAIN ret.value :
                ret.value[i].id = ret.value[j].id => i = j
        /\ \A i \in DOMAIN ret.value :
            \E p \in Selected :
                /\ p.id = ret.value[i].id
                /\ Cardinality({q \in Selected : q.created_at > p.created_at})
                        < ret.offset + i
                /\ ret.offset + i <=
                    Cardinality({q \in Selected : q.created_at >= p.created_at})
        /\ ret.filters = NoFilters => Selected = products
        /\ (ret.filters # NoFilters /\ ret.filters.search_query \in {<<>>, NullText})
              => Selected = {p \in products :
                                /\ CategoryMatches(p, ret.filters)
                                /\ BrandMatches(p, ret.filters)
                                /\ MinPriceMatches(p, ret.filters)
                                /\ MaxPriceMatches(p, ret.filters)
                                /\ StatusMatches(p, ret.filters)
                                /\ StockMatches(p, ret.filters)}

C25_Witness ==
    /\ IsProductList
    /\ ret.filters # NoFilters
    /\ ret.offset = 1
    /\ Len(ret.value) = ret.limit
    /\ Cardinality(Selected) > ret.offset + ret.limit
    /\ Selected # products

\* the cards a rendered page shows
PageCards ==
    IF IsPage /\ ret.shown # NothingShown THEN Range(ret.shown.cards) ELSE {}
ProductOf(id) == CHOOSE p \in products : p.id = id

\* the discount shown for product p is d (Null: none shown)
DiscountAsClaimed(p, d) ==
    IF p.original_price # Null /\ p.original_price > p.price
    THEN /\ d = (100 * (p.original_price - p.price)) \div p.original_price
         /\ 0 <= d /\ d <= 99
    ELSE d = Null

\* C30: a product card and the detail view show a discount exactly when
\* original_price is present and greater than price, and the percentage
\* shown is floor(100 * (original_price - price) / original_price), a
\* number from 0 to 99.
C30_DiscountShown ==
    /\ \A c \in PageCards : DiscountAsClaimed(ProductOf(c.id), c.discount)
    /\ (IsPage /\ ret.op = "product_detail_page" /\ ret.shown # NothingShown) =>
            DiscountAsClaimed(ProductOf(ret.shown.product), ret.shown.discount)

C30_Witness ==
    /\ IsPage /\ ret.op = "products_page" /\ ret.shown # NothingShown
    /\ \E c \in PageCards : c.discount = 18
    /\ \E c \in PageCards : c.discount = Null
    /\ \E c \in PageCards : c.discount = 20

FullSampleSet ==
    /\ Cardinality(categories) = 8
    /\ Cardinality(brands) = 8
    /\ Cardinality(products) = 8
    /\ Cardinality(images) = 8

\* invocation s found the store empty and stopped after it committed the
\* categories, or the categories and the brands, and no product
StoppedEarly(s) ==
    /\ seed[s].pc = "stopped"
    /\ seed[s].empty
    /\ seed[s].categories # <<>>
    /\ seed[s].products = <<>>

\* C26: after a seeder run that stopped after an intermediate commit, with
\* no product committed, a later seed_sample_data invocation completes
\* without error and leaves 8 categories, 8 brands, 8 products and 8 images.
C26_RecoversAfterPartialRun ==
    \A s, t \in Seeders :
        (StoppedEarly(s) /\ t = s + 1 /\ seed[t].pc \in {"done", "failed"}) =>
            /\ seed[t].pc = "done"
            /\ FullSampleSet

\* no row of the store was there before the first invocation
InitiallyEmpty ==
    /\ \A c \in categories : c.id > Len(CategoryPool)
    /\ \A b \in brands : b.id > Len(BrandPool)
    /\ \A p \in products : p.id > Len(ProductPool)
    /\ \A i \in images : i.id > Len(ImagePool)

\* C27: seeder invocations interleaved at query/commit granularity on an
\* initially empty store never leave a duplicated sample row: at most 8
\* categories, 8 brands, 8 products and 8 images exist in every state.
C27_NoDuplicateSampleRows ==
    InitiallyEmpty =>
        /\ Cardinality(categories) <= 8
        /\ Cardinality(brands) <= 8
        /\ Cardinality(products) <= 8
        /\ Cardinality(images) <= 8
        /\ \A c, d \in categories : c.name = d.name => c = d
        /\ \A p, q \in products : p.sku = q.sku => p = q

\* two invocations passed the check before either committed; one ran to
\* its end and the other hit the unique constraint
C27_Witness ==
    /\ InitiallyEmpty
    /\ seed[1].empty /\ seed[2].empty
    /\ \E s, t \in Seeders :
        seed[s].pc = "done" /\ seed[t].pc = "failed" /\ seed[t].categories = <<>>
    /\ FullSampleSet

\* the rows invocation s has committed
SeededProducts(s) == {p \in products : p.id \in Range(seed[s].products)}

\* C28: in every state reachable through seeder runs, the states between
\* staged commits included, each product's category_id and brand_id that is
\* set references an existing row, each product a seeder inserted has both
\* set, and every image's product_id references an existing product.
C28_ReferentialIntegrity ==
    /\ \A p \in products :
        /\ p.category_id # Null => \E c \in categories : c.id = p.category_id
        /\ p.brand_id # Null => \E b \in brands : b.id = p.brand_id
    /\ \A s \in Seeders : \A p \in SeededProducts(s) :
        /\ p.category_id # Null /\ p.category_id > 0
        /\ p.brand_id # Null /\ p.brand_id > 0
    /\ \A i \in images : \E p \in products : p.id = i.product_id

C28_Witness ==
    /\ \E s \in Seeders : seed[s].pc = "stopped" /\ SeededProducts(s) # {}
    /\ images = {}

\* C29: after any sequence of seeder runs product skus and slugs, category
\* names and slugs and brand names are pairwise distinct, every product has
\* price > 0 and stock_quantity >= 0, and the runs keep at most one image
\* with is_primary = true per product: every product a seeder inserted has
\* at most one, and a seeder adds no image to a product that was in the
\* store before.
C29_ModelConstraintsKept ==
    /\ \A p, q \in products : (p.sku = q.sku \/ p.slug = q.slug) => p = q
    /\ \A c, d \in categories : (c.name = d.name \/ c.slug = d.slug) => c = d
    /\ \A a, b \in brands : a.name = b.name => a = b
    /\ \A p \in products : p.price > 0 /\ p.stock_quantity >= 0
    /\ \A s \in Seeders : \A p \in SeededProducts(s) :
        Cardinality({i \in images : i.product_id = p.id /\ i.is_primary}) <= 1
    /\ \A i \in images : i.id > Len(ImagePool) =>
        \E s \in Seeders : i.product_id \in Range(seed[s].products)

C29_Witness ==
    /\ \A s \in Seeders : Finished(s)
    /\ \E s \in Seeders : seed[s].pc = "done" /\ SeededProducts(s) # {}
    /\ \E s \in Seeders : seed[s].pc = "done" /\ seed[s].products = <<>>
    /\ \E i \in images : i.is_primary

\* the active products of p's category other than p
OtherActive(p) ==
    {q \in products : /\ q.id # p.id
                      /\ q.status = ACTIVE
                      /\ q.category_id = p.category_id}

\* C22: the detail page shows at most 4 related products, never the
\* displayed product, each an active product of the displayed product's
\* category, and exactly 4 when the category holds at least 4 other active
\* products.
C22_RelatedProducts ==
    (IsPage /\ ret.op = "product_detail_page" /\ ret.shown # NothingShown
        /\ "related" \notin ret.failed) =>
        LET p == ProductOf(ret.shown.product)
            cards == ret.shown.cards
        IN  /\ Len(cards) <= 4
            /\ \A i \in DOMAIN cards :
                /\ cards[i].id # p.id
                /\ ProductOf(cards[i].id) \in OtherActive(p)
            /\ Cardinality(OtherActive(p)) >= 4 => Len(cards) = 4

=============================================================================
